---- MODULE Spec2Model ----
(***************************************************************************)
(* A model of the BERT codec of diodechain/gobert: the encoder             *)
(* (encode.go), the decoder and the struct binder (decode.go) and the      *)
(* BURP framing built on them.                                             *)
(*                                                                         *)
(* Native Go values are records whose single field names the Go type:      *)
(*   [int |-> n]   int / int64            [uint |-> n]  uint / uint64      *)
(*   [atom |-> s]  Atom                   [str |-> s]   string             *)
(*   [bin |-> b]   []byte                 [tuple |-> t] []Term             *)
(*   [list |-> t]  List{Items} / [n]Term  [nil |-> TRUE] nil interface     *)
(*   [bool |-> b]  bool                   [float |-> s] float32            *)
(*   [big |-> n]   big.Int                                                 *)
(*   [bytes |-> b, bits |-> k, spare |-> c]  Bitstring{Bytes, Bits}        *)
(* Integers are kept as math/big keeps them, a sign and a big-endian       *)
(* magnitude of bytes without leading zeros: [neg |-> BOOLEAN, abs |-> b]. *)
(* Text is a sequence of byte values.  A float32 is named by its "%.20e"   *)
(* text.  The spare field of a Bitstring is the part of the backing array  *)
(* of Bytes between its length and its capacity.  A pointer or an          *)
(* interface is the value it holds (reflect.Indirect, v.Elem()).           *)
(*                                                                         *)
(* The encoder is the one of encode.go, which the tests exercise; the      *)
(* older copy of it that follows the type declarations has no bignum and   *)
(* no unsigned case and is not modelled.                                   *)
(***************************************************************************)
EXTENDS Integers, Sequences, FiniteSets, TLC

VARIABLES val, out, data, res, wire, frame, ures, pc

vars == <<val, out, data, res, wire, frame, ures, pc>>

(***************************************************************************)
(* Tags and special atoms (types.go)                                       *)
(***************************************************************************)
VersionTag == 131
SmallIntTag == 97
IntTag == 98
SmallBignumTag == 110
LargeBignumTag == 111
FloatTag == 99
AtomTag == 100
SmallTupleTag == 104
LargeTupleTag == 105
NilTag == 106
StringTag == 107
ListTag == 108
BinTag == 109
BitTag == 77

BertAtom == [atom |-> <<98, 101, 114, 116>>]
NilAtom == [atom |-> <<110, 105, 108>>]
TrueAtom == [atom |-> <<116, 114, 117, 101>>]
FalseAtom == [atom |-> <<102, 97, 108, 115, 101>>]

Is(v, f) == f \in DOMAIN v

(***************************************************************************)
(* Byte-sequence helpers                                                   *)
(***************************************************************************)
RECURSIVE Zeros(_)
Zeros(n) == IF n <= 0 THEN <<>> ELSE <<0>> \o Zeros(n - 1)

RECURSIVE StripZeros(_)
StripZeros(b) ==
  IF b = <<>> THEN <<>>
  ELSE IF Head(b) = 0 THEN StripZeros(Tail(b)) ELSE b

Min(a, b) == IF a < b THEN a ELSE b

Reverse(b) == [i \in 1..Len(b) |-> b[Len(b) + 1 - i]]

(* b + 1 on a fixed-width big-endian byte string, the carry out dropped *)
RECURSIVE AddOne(_)
AddOne(b) ==
  IF b = <<>> THEN <<>>
  ELSE LET front == SubSeq(b, 1, Len(b) - 1)
           last == b[Len(b)]
       IN IF last < 255 THEN front \o <<last + 1>>
          ELSE AddOne(front) \o <<0>>

(* two's complement negation on a fixed-width byte string *)
TwosComplement(b) == AddOne([i \in 1..Len(b) |-> 255 - b[i]])

(***************************************************************************)
(* math/big integers                                                       *)
(***************************************************************************)
Big(neg, abs) == [neg |-> neg, abs |-> abs]

RECURSIVE NatBytes(_)
NatBytes(n) == IF n = 0 THEN <<>> ELSE NatBytes(n \div 256) \o <<n % 256>>

BigOfNat(n) == Big(FALSE, NatBytes(n))

RECURSIVE LexLess(_, _)
LexLess(a, b) ==
  IF a = <<>> THEN FALSE
  ELSE IF Head(a) # Head(b) THEN Head(a) < Head(b)
  ELSE LexLess(Tail(a), Tail(b))

MagLess(a, b) ==
  IF Len(a) # Len(b) THEN Len(a) < Len(b) ELSE LexLess(a, b)

(* x < y *)
BigLess(x, y) ==
  IF x.neg /\ ~y.neg THEN TRUE
  ELSE IF ~x.neg /\ y.neg THEN FALSE
  ELSE IF x.neg THEN MagLess(y.abs, x.abs)
  ELSE MagLess(x.abs, y.abs)

BigLeq(x, y) == x = y \/ BigLess(x, y)

MinInt64 == Big(TRUE, <<128, 0, 0, 0, 0, 0, 0, 0>>)
MaxInt64 == Big(FALSE, <<127, 255, 255, 255, 255, 255, 255, 255>>)
MinInt32 == Big(TRUE, <<128, 0, 0, 0>>)
MaxInt32 == Big(FALSE, <<127, 255, 255, 255>>)

IsInt64(n) == BigLeq(MinInt64, n) /\ BigLeq(n, MaxInt64)

(* uint32(x) for an int64 x within the 32-bit signed range, as the four    *)
(* big-endian bytes PutUint32 writes                                       *)
Uint32Of(x) ==
  LET pad == Zeros(4 - Len(x.abs)) \o x.abs
  IN IF x.neg THEN TwosComplement(pad) ELSE pad

(***************************************************************************)
(* Encoder: primitive writers.  A writer is the bytes it appends to w.     *)
(***************************************************************************)
write1(ui8) == <<ui8>>

write2(ui16) == <<ui16 \div 256, ui16 % 256>>

write4(ui32) ==
  <<ui32 \div 16777216, (ui32 \div 65536) % 256, (ui32 \div 256) % 256, ui32 % 256>>

writeSmallInt(n) == write1(SmallIntTag) \o write1(n)

(* n is the uint32 already laid out big-endian, see Uint32Of *)
writeInt(n) == write1(IntTag) \o n

(* writeNumber with the upper 32-bit test written x < 2147483647 *)
writeNumberStrictUpper(n) ==
  IF IsInt64(n) /\ BigLeq(BigOfNat(0), n) /\ BigLess(n, BigOfNat(256))
    THEN writeSmallInt(IF n.abs = <<>> THEN 0 ELSE n.abs[1])
  ELSE IF IsInt64(n) /\ BigLeq(MinInt32, n) /\ BigLess(n, MaxInt32)
    THEN writeInt(Uint32Of(n))
  ELSE write1(SmallBignumTag)
       \o write1(Len(n.abs) % 256)
       \o (IF ~n.neg THEN write1(0) ELSE write1(1))
       \o Reverse(n.abs)

writeNumber(n) ==
  IF IsInt64(n) /\ BigLeq(BigOfNat(0), n) /\ BigLess(n, BigOfNat(256))
    THEN writeSmallInt(IF n.abs = <<>> THEN 0 ELSE n.abs[1])
  ELSE IF IsInt64(n) /\ BigLeq(MinInt32, n) /\ BigLeq(n, MaxInt32)
    THEN writeInt(Uint32Of(n))
  ELSE write1(SmallBignumTag)
       \o write1(Len(n.abs) % 256)
       \o (IF ~n.neg THEN write1(0) ELSE write1(1))
       \o Reverse(n.abs)

(* f is the text Sprintf("%.20e", f) produces *)
writeFloat(f) == write1(FloatTag) \o f \o Zeros(31 - Len(f))

writeAtom(a) == write1(AtomTag) \o write2(Len(a) % 65536) \o a

writeBinary(a) == write1(BinTag) \o write4(Len(a)) \o a

writeBitstring(a, bits) ==
  LET size == (bits + 7) \div 8
      padded == Zeros(size - Len(a)) \o a
  IN write1(BitTag) \o write4(size) \o write1(bits % 8) \o SubSeq(padded, 1, size)

writeNil == write1(NilTag)

writeString(s) == write1(StringTag) \o write2(Len(s) % 65536) \o s

(***************************************************************************)
(* Encoder: dispatch.  A recursive writer returns                          *)
(*   [st |-> "ok" | "panic", e |-> "nil" | an error, b |-> bytes written]. *)
(***************************************************************************)
Wrote(b) == [st |-> "ok", e |-> "nil", b |-> b]

WriteErr(e, b) == [st |-> "ok", e |-> e, b |-> b]

WritePanic(b) == [st |-> "panic", e |-> "nil", b |-> b]

(* the Bitstring case of writeTag; b.Bytes[0:b.Bits/8] panics beyond the   *)
(* capacity of Bytes and reads the backing array between length and        *)
(* capacity                                                                *)
(* the Bitstring case without the test of Bits%8 *)
writeTagBitstringAlways(b) == Wrote(writeBitstring(b.bytes, b.bits))

writeTagBitstring(b) ==
  IF b.bits % 8 # 0
    THEN Wrote(writeBitstring(b.bytes, b.bits))
  ELSE IF b.bits \div 8 > Len(b.bytes) + Len(b.spare)
    THEN WritePanic(<<>>)
  ELSE Wrote(writeBinary(SubSeq(b.bytes \o b.spare, 1, b.bits \div 8)))

RECURSIVE writeTag(_), writeElems(_, _), writeSmallTuple(_), writeList(_)

(* the element loop of writeSmallTuple and writeList, from index i on: it  *)
(* stops at the first element whose writeTag returns an error              *)
writeElems(t, i) ==
  IF i > Len(t) THEN Wrote(<<>>)
  ELSE LET r == writeTag(t[i])
       IN IF r.st = "panic" \/ r.e # "nil" THEN r
          ELSE LET rest == writeElems(t, i + 1)
               IN [st |-> rest.st, e |-> rest.e, b |-> r.b \o rest.b]

writeSmallTuple(t) ==
  LET r == writeElems(t, 1)
  IN [st |-> r.st, e |-> r.e,
      b |-> write1(SmallTupleTag) \o write1(Len(t) % 256) \o r.b]

(* writeList that leaves the terminator out of an empty list *)
writeListNoNilWhenEmpty(l) ==
  LET r == writeElems(l, 1)
  IN [st |-> r.st, e |-> r.e,
      b |-> write1(ListTag) \o write4(Len(l)) \o r.b
            \o (IF r.st = "panic" \/ Len(l) = 0 THEN <<>> ELSE writeNil)]

writeList(l) ==
  LET r == writeElems(l, 1)
  IN [st |-> r.st, e |-> r.e,
      b |-> write1(ListTag) \o write4(Len(l)) \o r.b
            \o (IF r.st = "panic" THEN <<>> ELSE writeNil)]

writeTag(v) ==
  IF Is(v, "int") THEN Wrote(writeNumber(v.int))
  ELSE IF Is(v, "uint") THEN Wrote(writeNumber(v.uint))
  ELSE IF Is(v, "float") THEN Wrote(writeFloat(v.float))
  ELSE IF Is(v, "atom") THEN Wrote(writeAtom(v.atom))
  ELSE IF Is(v, "str") THEN Wrote(writeString(v.str))
  ELSE IF Is(v, "bin") THEN Wrote(writeBinary(v.bin))
  ELSE IF Is(v, "tuple") THEN writeSmallTuple(v.tuple)
  ELSE IF Is(v, "list") THEN writeList(v.list)
  ELSE IF Is(v, "bits") THEN writeTagBitstring(v)
  ELSE IF Is(v, "big") THEN Wrote(writeNumber(v.big))
  ELSE IF Is(v, "nil") THEN Wrote(writeNil)
  ELSE WriteErr("ErrUnknownType", <<>>)

EncodeTo(v) ==
  LET r == writeTag(v)
  IN [st |-> r.st, e |-> r.e, b |-> write1(VersionTag) \o r.b]

Encode(v) == EncodeTo(v)

(* MarshalResponse whose length prefix counts the prefix too *)
MarshalResponseCountsPrefix(v) ==
  LET resp == Encode(v)
  IN IF resp.st = "panic" THEN WritePanic(<<>>)
     ELSE [st |-> "ok", e |-> resp.e, b |-> write4(Len(resp.b) + 4) \o resp.b]

(* the bytes written to w; a panic in Encode leaves nothing written *)
MarshalResponse(v) ==
  LET resp == Encode(v)
  IN IF resp.st = "panic" THEN WritePanic(<<>>)
     ELSE [st |-> "ok", e |-> resp.e, b |-> write4(Len(resp.b)) \o resp.b]

(***************************************************************************)
(* Decoder.  The reader r is an in-memory buffer (bytes.NewBuffer): d is   *)
(* its content and p the index of the next unread byte.  ReadAll over a    *)
(* LimitReader returns the bytes that are left, at most n of them, and a   *)
(* nil error: the end of the input is not an error to ReadAll.             *)
(***************************************************************************)
ReadAllLimit(d, p, n) ==
  LET last == Min(p + n - 1, Len(d))
      b == IF n <= 0 THEN <<>> ELSE SubSeq(d, p, last)
  IN [b |-> b, p |-> p + Len(b)]

(* int(int32(ui32)) of four big-endian bytes *)
Int32Of(b) ==
  IF b[1] < 128 THEN Big(FALSE, StripZeros(b))
  ELSE Big(TRUE, StripZeros(TwosComplement(b)))

(* the value of a non-negative integer below 2^31 *)
RECURSIVE NatOf(_)
NatOf(abs) ==
  IF abs = <<>> THEN 0
  ELSE 256 * NatOf(SubSeq(abs, 1, Len(abs) - 1)) + abs[Len(abs)]

(* a primitive read returns [st |-> "ok" | "panic", v |-> value, p |-> position] *)
read1(d, p) ==
  LET bits == ReadAllLimit(d, p, 1)
  IN IF Len(bits.b) < 1 THEN [st |-> "panic", v |-> 0, p |-> bits.p]
     ELSE [st |-> "ok", v |-> bits.b[1], p |-> bits.p]

read2(d, p) ==
  LET bits == ReadAllLimit(d, p, 2)
  IN IF Len(bits.b) < 2 THEN [st |-> "panic", v |-> 0, p |-> bits.p]
     ELSE [st |-> "ok", v |-> 256 * bits.b[1] + bits.b[2], p |-> bits.p]

(* v is the signed result as a big integer *)
read4(d, p) ==
  LET bits == ReadAllLimit(d, p, 4)
  IN IF Len(bits.b) < 4 THEN [st |-> "panic", v |-> BigOfNat(0), p |-> bits.p]
     ELSE [st |-> "ok", v |-> Int32Of(bits.b), p |-> bits.p]

(* a term read returns                                                     *)
(*   [st |-> "ok" | "err" | "panic", e |-> error, t |-> Term, p |-> pos]   *)
NilTerm == [nil |-> TRUE]

Ok(t, p) == [st |-> "ok", e |-> "nil", t |-> t, p |-> p]

Err(e, t, p) == [st |-> "err", e |-> e, t |-> t, p |-> p]

Panic(p) == [st |-> "panic", e |-> "nil", t |-> NilTerm, p |-> p]

readSmallInt(d, p) ==
  LET r == read1(d, p)
  IN IF r.st = "panic" THEN Panic(r.p) ELSE Ok([int |-> BigOfNat(r.v)], r.p)

readInt(d, p) ==
  LET r == read4(d, p)
  IN IF r.st = "panic" THEN Panic(r.p) ELSE Ok([int |-> r.v], r.p)

(* float32(0), by its text 0.00000000000000000000e+00 *)
ZeroFloat == [float |-> <<48, 46>> \o [i \in 1..20 |-> 48] \o <<101, 43, 48, 48>>]

(* the characters of a decimal floating-point literal: + - . 0-9 e E *)
FloatChars == {43, 45, 46, 69, 101} \cup (48..57)

RECURSIVE UpToNul(_)
UpToNul(b) ==
  IF b = <<>> \/ Head(b) = 0 THEN <<>> ELSE <<Head(b)>> \o UpToNul(Tail(b))

(* strconv.ParseFloat is kept to its first check: an empty text or one     *)
(* with a character outside a float literal is a syntax error              *)
readFloat(d, p) ==
  LET bits == ReadAllLimit(d, p, 31)
      text == UpToNul(bits.b)
  IN IF text = <<>> \/ \E i \in 1..Len(text) : text[i] \notin FloatChars
       THEN Err("ErrSyntax", ZeroFloat, bits.p)
     ELSE Ok([float |-> text], bits.p)

readString(d, p) ==
  LET size == read2(d, p)
      str == ReadAllLimit(d, size.p, size.v)
  IN IF size.st = "panic" THEN Panic(size.p)
     ELSE Ok([str |-> str.b], str.p)

readAtom(d, p) ==
  LET r == readString(d, p)
  IN IF r.st = "panic" THEN r ELSE Ok([atom |-> r.t.str], r.p)

(* reads one byte past the tag and returns make([]Term, 0) *)
readNil(d, p) ==
  LET skipped == ReadAllLimit(d, p, 1)
  IN Ok([tuple |-> <<>>], skipped.p)

readBin(d, p) ==
  LET size == read4(d, p)
      bytes == ReadAllLimit(d, size.p, IF size.v.neg THEN 0 ELSE NatOf(size.v.abs))
  IN IF size.st = "panic" THEN Panic(size.p)
     ELSE Ok([bin |-> bytes.b], bytes.p)

readBit(d, p) ==
  LET size == read4(d, p)
      bits == read1(d, size.p)
      bytes == ReadAllLimit(d, bits.p, IF size.v.neg THEN 0 ELSE NatOf(size.v.abs))
  IN IF size.st = "panic" THEN Panic(size.p)
     ELSE IF bits.st = "panic" THEN Panic(bits.p)
     ELSE Ok([bytes |-> bytes.b, bits |-> bits.v, spare |-> <<>>], bytes.p)

RECURSIVE readTag(_, _), readComplex(_, _), readSmallTuple(_, _), readList(_, _)
RECURSIVE readSmallTupleLoop(_, _, _, _), readListLoop(_, _, _, _)

readComplex(d, p) ==
  LET r == readTag(d, p)
  IN IF r.st # "ok" THEN r
     ELSE IF Is(r.t, "atom") /\ r.t.atom = NilAtom.atom THEN Ok(NilTerm, r.p)
     ELSE IF Is(r.t, "atom") /\ r.t.atom = TrueAtom.atom THEN Ok([bool |-> TRUE], r.p)
     ELSE IF Is(r.t, "atom") /\ r.t.atom = FalseAtom.atom THEN Ok([bool |-> FALSE], r.p)
     ELSE r

(* the loop of readSmallTuple with the elements read so far in tuple and   *)
(* size - Len(tuple) elements to go                                        *)
readSmallTupleLoop(d, p, size, tuple) ==
  IF Len(tuple) >= size THEN Ok([tuple |-> tuple], p)
  ELSE LET r == readTag(d, p)
       IN IF r.st = "panic" THEN r
          ELSE IF r.st = "err" THEN Err(r.e, NilTerm, r.p)
          ELSE IF Is(r.t, "atom") /\ r.t.atom = BertAtom.atom THEN readComplex(d, r.p)
          ELSE readSmallTupleLoop(d, r.p, size, Append(tuple, r.t))

readSmallTuple(d, p) ==
  LET size == read1(d, p)
  IN IF size.st = "panic" THEN Panic(size.p)
     ELSE readSmallTupleLoop(d, size.p, size.v, <<>>)

(* the loop of readList and the read1 that discards the terminator *)
readListLoop(d, p, size, list) ==
  IF Len(list) >= size
    THEN LET term == read1(d, p)
         IN IF term.st = "panic" THEN Panic(term.p) ELSE Ok([tuple |-> list], term.p)
  ELSE LET r == readTag(d, p)
       IN IF r.st = "panic" THEN r
          ELSE IF r.st = "err" THEN Err(r.e, NilTerm, r.p)
          ELSE readListLoop(d, r.p, size, Append(list, r.t))

(* make([]Term, size) panics on a negative size *)
readList(d, p) ==
  LET size == read4(d, p)
  IN IF size.st = "panic" THEN Panic(size.p)
     ELSE IF size.v.neg THEN Panic(size.p)
     ELSE readListLoop(d, size.p, NatOf(size.v.abs), <<>>)

readTag(d, p) ==
  LET tag == read1(d, p)
  IN IF tag.st = "panic" THEN Panic(tag.p)
     ELSE IF tag.v = SmallIntTag THEN readSmallInt(d, tag.p)
     ELSE IF tag.v = IntTag THEN readInt(d, tag.p)
     ELSE IF tag.v = SmallBignumTag THEN Err("ErrUnknownType", NilTerm, tag.p)
     ELSE IF tag.v = LargeBignumTag THEN Err("ErrUnknownType", NilTerm, tag.p)
     ELSE IF tag.v = FloatTag THEN readFloat(d, tag.p)
     ELSE IF tag.v = AtomTag THEN readAtom(d, tag.p)
     ELSE IF tag.v = SmallTupleTag THEN readSmallTuple(d, tag.p)
     ELSE IF tag.v = LargeTupleTag THEN Err("ErrUnknownType", NilTerm, tag.p)
     ELSE IF tag.v = NilTag THEN readNil(d, tag.p)
     ELSE IF tag.v = StringTag THEN readString(d, tag.p)
     ELSE IF tag.v = ListTag THEN readList(d, tag.p)
     ELSE IF tag.v = BinTag THEN readBin(d, tag.p)
     ELSE IF tag.v = BitTag THEN readBit(d, tag.p)
     ELSE Err("ErrUnknownType", NilTerm, tag.p)

DecodeFrom(d, p) ==
  LET version == read1(d, p)
  IN IF version.st = "panic" THEN Panic(version.p)
     ELSE IF version.v # VersionTag THEN Err("ErrBadMagic", NilTerm, version.p)
     ELSE readTag(d, version.p)

Decode(d) == DecodeFrom(d, 1)

(***************************************************************************)
(* Struct binder and inbound framing                                       *)
(***************************************************************************)
(* var req Request: empty atoms and a nil Arguments slice *)
ZeroRequest ==
  [Kind |-> [atom |-> <<>>], Module |-> [atom |-> <<>>],
   Function |-> [atom |-> <<>>], Arguments |-> NilTerm]

RequestFields == <<"Kind", "Module", "Function", "Arguments">>

Bound(req) == [st |-> "ok", e |-> "nil", req |-> req]

BindPanic == [st |-> "panic", e |-> "nil", req |-> ZeroRequest]

(* the loop of UnmarshalFrom from element i on: v.Field(i).Set(e) panics   *)
(* past the last field, on a nil element and on an element whose type is   *)
(* not the field's (Atom, Atom, Atom, []Term)                              *)
RECURSIVE bindFields(_, _, _)
bindFields(slice, i, req) ==
  IF i > Len(slice) THEN Bound(req)
  ELSE LET e == slice[i]
       IN IF i > Len(RequestFields) THEN BindPanic
          ELSE IF i <= 3 /\ ~Is(e, "atom") THEN BindPanic
          ELSE IF i = 4 /\ ~Is(e, "tuple") THEN BindPanic
          ELSE bindFields(slice, i + 1, [req EXCEPT ![RequestFields[i]] = e])

(* the error of DecodeFrom is dropped; reflect's Len panics on a nil       *)
(* result and on a result that is no slice or string, Elem panics on the   *)
(* bytes of a string or binary; the return value is always nil             *)
UnmarshalFrom(d, p) ==
  LET r == DecodeFrom(d, p)
      result == r.t
  IN IF r.st = "panic" THEN BindPanic
     ELSE IF Is(result, "tuple") THEN bindFields(result.tuple, 1, ZeroRequest)
     ELSE IF Is(result, "str") THEN (IF Len(result.str) = 0 THEN Bound(ZeroRequest) ELSE BindPanic)
     ELSE IF Is(result, "atom") THEN (IF Len(result.atom) = 0 THEN Bound(ZeroRequest) ELSE BindPanic)
     ELSE IF Is(result, "bin") THEN (IF Len(result.bin) = 0 THEN Bound(ZeroRequest) ELSE BindPanic)
     ELSE BindPanic

(* io.LimitReader(r, size) is the next size bytes of r *)
UnmarshalRequest(d) ==
  LET size == read4(d, 1)
      body == ReadAllLimit(d, size.p, IF size.v.neg THEN 0 ELSE NatOf(size.v.abs))
  IN IF size.st = "panic" THEN BindPanic
     ELSE UnmarshalFrom(body.b, 1)

(***************************************************************************)
(* Bounds and the values the operations are applied to                     *)
(***************************************************************************)
(* the longest tuple or list *)
MaxLen == 2

(* the deepest nesting of tuples and lists *)
MaxDepth == 2

(* the longest magnitude of an integer, in bytes *)
MaxIntBytes == 9

(* the longest Bytes of a Bitstring *)
MaxBitBytes == 3

(* the largest Bits of a Bitstring *)
MaxBits == 24

SeqsUpTo(S, n) == UNION {[1..k -> S] : k \in 0..n}

GoInt(n) == [int |-> BigOfNat(n)]

FooAtom == [atom |-> <<102, 111, 111>>]

(* 1, 255, 256, -1, 2^31 - 1, -2^31, 2^31, -(2^31 + 1), 100000000000 *)
IntSamples ==
  { GoInt(1), GoInt(255), GoInt(256), [int |-> Big(TRUE, <<1>>)],
    [int |-> MaxInt32], [int |-> MinInt32],
    [int |-> Big(FALSE, <<128, 0, 0, 0>>)], [int |-> Big(TRUE, <<128, 0, 0, 1>>)],
    [int |-> Big(FALSE, <<23, 72, 118, 232, 0>>)], [uint |-> BigOfNat(1)] }

(* the 4-field request {call, foo, foo, {1}} *)
RequestTerm ==
  [tuple |-> <<[atom |-> <<99, 97, 108, 108>>], FooAtom, FooAtom, [tuple |-> <<GoInt(1)>>]>>]

Scalars ==
  IntSamples \cup
  { BertAtom, NilAtom, TrueAtom, FalseAtom, FooAtom,
    [str |-> <<>>], [str |-> <<104, 105>>],
    [bin |-> <<>>], [bin |-> <<1, 2, 3, 4>>],
    [float |-> <<53, 101, 45, 48, 49>>],
    [bytes |-> <<128>>, bits |-> 1, spare |-> <<>>],
    NilTerm, [bool |-> TRUE], RequestTerm }

(* the elements of the tuples and lists *)
Elems == { GoInt(1), BertAtom, TrueAtom, [str |-> <<104, 105>>], NilTerm, [bool |-> TRUE] }

(* the neighbours of a nested tuple or list *)
Siblings == { GoInt(1), NilTerm }

Flat == { [tuple |-> s] : s \in SeqsUpTo(Elems, MaxLen) }
        \cup { [list |-> s] : s \in SeqsUpTo(Elems, MaxLen) }

Wrap(v) ==
  { [tuple |-> <<v>>], [list |-> <<v>>] }
  \cup { [tuple |-> <<x, v>>] : x \in Siblings }
  \cup { [tuple |-> <<v, x>>] : x \in Siblings }
  \cup { [list |-> <<v, x>>] : x \in Siblings }

RECURSIVE Nested(_)
Nested(depth) ==
  IF depth <= 1 THEN Flat ELSE UNION { Wrap(v) : v \in Nested(depth - 1) }

Values == Scalars \cup UNION { Nested(k) : k \in 1..MaxDepth }

(* integers around the boundaries of one byte, 32 bits and 64 bits *)
Magnitudes ==
  { <<>> } \cup
  { <<h>> \o t : h \in {1, 127, 128, 255}, t \in SeqsUpTo({0, 255}, MaxIntBytes - 1) }

Bigs == { Big(neg, abs) : neg \in BOOLEAN, abs \in Magnitudes } \ { Big(TRUE, <<>>) }

(* int64, uint64 and big.Int inputs *)
Numbers ==
  { [int |-> n] : n \in { m \in Bigs : IsInt64(m) } }
  \cup { [uint |-> n] : n \in { m \in Bigs : ~m.neg /\ Len(m.abs) <= 8 } }
  \cup { [big |-> n] : n \in Bigs }

Bitstrings ==
  { [bytes |-> b, bits |-> k, spare |-> c] :
      b \in SeqsUpTo({1, 128, 255}, MaxBitBytes), k \in 0..MaxBits, c \in {<<>>, <<7>>} }

(***************************************************************************)
(* The operations as steps on one value: Encode or MarshalResponse it,     *)
(* then hand the bytes, whole or cut short, to Decode or UnmarshalRequest  *)
(***************************************************************************)
NoOut == Wrote(<<>>)

NoRes == Ok(NilTerm, 0)

NoBind == Bound(ZeroRequest)

InitWith(S) ==
  /\ val \in S
  /\ out = NoOut
  /\ data = <<>>
  /\ res = NoRes
  /\ wire = NoOut
  /\ frame = <<>>
  /\ ures = NoBind
  /\ pc = "start"

Init == InitWith(Values)

DoEncode ==
  /\ pc = "start"
  /\ out' = Encode(val)
  /\ pc' = "encoded"
  /\ UNCHANGED <<val, data, res, wire, frame, ures>>

(* Decode on the encoding or on a prefix of it *)
DoDecode ==
  /\ pc = "encoded"
  /\ out.st = "ok"
  /\ \E k \in 0..Len(out.b) :
       /\ data' = SubSeq(out.b, 1, k)
       /\ res' = Decode(data')
  /\ pc' = "decoded"
  /\ UNCHANGED <<val, out, wire, frame, ures>>

DoMarshalResponse ==
  /\ pc = "start"
  /\ wire' = MarshalResponse(val)
  /\ pc' = "marshalled"
  /\ UNCHANGED <<val, out, data, res, frame, ures>>

(* the frames a peer may send: the frame written, a prefix of it, the      *)
(* frame with another version byte                                         *)
FramesOf(w) ==
  { SubSeq(w, 1, k) : k \in 0..Len(w) }
  \cup { [i \in 1..Len(w) |-> IF i = 5 THEN 130 ELSE w[i]] }

DoUnmarshalRequest ==
  /\ pc = "marshalled"
  /\ wire.st = "ok"
  /\ \E f \in FramesOf(wire.b) :
       /\ frame' = f
       /\ ures' = UnmarshalRequest(f)
  /\ pc' = "unmarshalled"
  /\ UNCHANGED <<val, out, data, res, wire>>

Next == DoEncode \/ DoDecode \/ DoMarshalResponse \/ DoUnmarshalRequest

Spec == Init /\ [][Next]_vars

(* the encoder alone *)
NextEncode == DoEncode \/ DoMarshalResponse

SpecEncode == Init /\ [][NextEncode]_vars

(* the codec on integers *)
InitNum == InitWith(Numbers)

NextCodec == DoEncode \/ DoDecode

SpecNum == InitNum /\ [][NextCodec]_vars

(* the codec on bitstrings *)
InitBits == InitWith(Bitstrings)

SpecBits == InitBits /\ [][NextCodec]_vars

(***************************************************************************)
(* Properties                                                              *)
(***************************************************************************)
Encoded == pc \in {"encoded", "decoded"}

DecodedWhole == pc = "decoded" /\ data = out.b

NumberOf(v) == IF Is(v, "int") THEN v.int ELSE IF Is(v, "uint") THEN v.uint ELSE v.big

(* 0 <= n <= 255 *)
InByte(n) == ~n.neg /\ Len(n.abs) <= 1

(* -2147483648 <= n <= 2147483647 *)
InInt32(n) ==
  \/ Len(n.abs) < 4
  \/ Len(n.abs) = 4 /\ n.abs[1] < 128
  \/ n.neg /\ n.abs = <<128, 0, 0, 0>>

(* the 32-bit two's complement of n, |n| <= 2^31, as two 16-bit halves *)
TwosHalves(n) ==
  LET m == Zeros(4 - Len(n.abs)) \o n.abs
      hi == 256 * m[1] + m[2]
      lo == 256 * m[3] + m[4]
  IN IF ~n.neg THEN <<hi, lo>>
     ELSE IF lo = 0 THEN <<(65536 - hi) % 65536, 0>>
     ELSE <<65535 - hi, 65536 - lo>>

TwosBytes(n) ==
  LET h == TwosHalves(n)
  IN <<h[1] \div 256, h[1] % 256, h[2] \div 256, h[2] % 256>>

(* C2: an integer n is encoded with tag 97 and one byte exactly when       *)
(* 0 <= n <= 255, with tag 98 and its 4-byte big-endian two's complement   *)
(* exactly when it is otherwise in the 32-bit signed range, and with tag   *)
(* 110, byte count, sign flag and little-endian magnitude in every other   *)
(* case, unsigned inputs included; Decode of a tag-110 encoding fails.     *)
(* n ranges over the int64, uint64 and big.Int inputs of Numbers.          *)
C2_IntegerTagSelection ==
  Encoded =>
    LET n == NumberOf(val)
        b == out.b
    IN /\ out.st = "ok" /\ out.e = "nil"
       /\ b[1] = VersionTag
       /\ b[2] \in {97, 98, 110}
       /\ b[2] = 97 <=> InByte(n)
       /\ b[2] = 98 <=> (InInt32(n) /\ ~InByte(n))
       /\ b[2] = 110 <=> ~InInt32(n)
       /\ b[2] = 97 => b = <<131, 97, IF n.abs = <<>> THEN 0 ELSE n.abs[1]>>
       /\ b[2] = 98 => b = <<131, 98>> \o TwosBytes(n)
       /\ b[2] = 110 =>
            /\ Len(b) = 4 + Len(n.abs)
            /\ b[3] = Len(n.abs)
            /\ b[4] = (IF n.neg THEN 1 ELSE 0)
            /\ \A i \in 1..Len(n.abs) : b[4 + i] = n.abs[Len(n.abs) + 1 - i]
       /\ (DecodedWhole /\ b[2] = 110) => res.st = "err"

(* the unsigned input 2147483648 was encoded with tag 110 and its decoding failed *)
C2_Witness ==
  /\ DecodedWhole
  /\ val = [uint |-> Big(FALSE, <<128, 0, 0, 0>>)]
  /\ out.b = <<131, 110, 4, 0, 0, 0, 0, 128>>
  /\ res.st = "err"

(* the binary encoding of the first k bytes of a Bitstring, k < 256 *)
IsBinaryOfFirst(b, bytes, k) ==
  /\ Len(b) = 6 + k
  /\ SubSeq(b, 1, 6) = <<131, 109, 0, 0, 0, k>>
  /\ \A i \in 1..k : i <= Len(bytes) /\ b[6 + i] = bytes[i]

(* C6 as stated: every Bitstring whose Bits is a multiple of 8 encodes,    *)
(* without failure, to the Binary encoding of its first Bits/8 bytes, and  *)
(* tag 77 is emitted only when Bits mod 8 is nonzero                       *)
C6_EveryWholeByteBitstring ==
  (Encoded /\ Is(val, "bits")) =>
    /\ val.bits % 8 = 0 =>
         /\ out.st = "ok" /\ out.e = "nil"
         /\ IsBinaryOfFirst(out.b, val.bytes, val.bits \div 8)
    /\ (out.st = "ok" /\ out.b[2] = 77) => val.bits % 8 # 0

(* C6, amended: a Bitstring whose Bits is a multiple of 8 and whose Bytes  *)
(* holds at least Bits/8 bytes encodes, without failure, to the Binary     *)
(* encoding of its first Bits/8 bytes; tag 77 is emitted only when Bits    *)
(* mod 8 is nonzero                                                        *)
C6_WholeByteBitstringIsBinary ==
  (Encoded /\ Is(val, "bits")) =>
    /\ (val.bits % 8 = 0 /\ Len(val.bytes) >= val.bits \div 8) =>
         /\ out.st = "ok" /\ out.e = "nil"
         /\ IsBinaryOfFirst(out.b, val.bytes, val.bits \div 8)
    /\ (out.st = "ok" /\ out.b[2] = 77) => val.bits % 8 # 0

(* a 16-bit Bitstring over three bytes was encoded as the binary of its first two *)
C6_Witness ==
  /\ pc = "encoded"
  /\ val = [bytes |-> <<1, 128, 255>>, bits |-> 16, spare |-> <<>>]
  /\ out.b = <<131, 109, 0, 0, 0, 2, 1, 128>>

(* the tag-encodings of the elements of t, in order *)
RECURSIVE ElementBytes(_)
ElementBytes(t) ==
  IF t = <<>> THEN <<>> ELSE Tail(Encode(Head(t)).b) \o ElementBytes(Tail(t))

ElementsEncode(t) == \A i \in 1..Len(t) : Encode(t[i]).st = "ok" /\ Encode(t[i]).e = "nil"

(* C7: the encoding of a list of n elements, n = 0 included, is tag 108,   *)
(* the 4-byte big-endian count n, the encodings of the n elements in       *)
(* order, and one nil tag 106 as its last byte                             *)
C7_ListEncoding ==
  (pc = "encoded" /\ Is(val, "list")) =>
    LET b == out.b
        n == Len(val.list)
    IN /\ out.st = "ok"
       /\ SubSeq(b, 1, 6) = <<131, 108, 0, 0, 0, n>>
       /\ b[Len(b)] = 106
       /\ ElementsEncode(val.list) =>
            /\ out.e = "nil"
            /\ b = <<131, 108, 0, 0, 0, n>> \o ElementBytes(val.list) \o <<106>>

(* the empty list was encoded, and so was a list holding a list *)
C7_Witness ==
  /\ pc = "encoded"
  /\ \/ val = [list |-> <<>>] /\ out.b = <<131, 108, 0, 0, 0, 0, 106>>
     \/ /\ val = [list |-> <<[list |-> <<GoInt(1)>>], NilTerm>>]
        /\ out.b = <<131, 108, 0, 0, 0, 2, 108, 0, 0, 0, 1, 97, 1, 106, 106, 106>>

(* C8: what MarshalResponse writes is a 4-byte big-endian length L and     *)
(* then exactly L bytes, which are Encode(val)                             *)
C8_OutboundFraming ==
  (pc = "marshalled" /\ wire.st = "ok") =>
    LET w == wire.b
        L == 16777216 * w[1] + 65536 * w[2] + 256 * w[3] + w[4]
    IN /\ Len(w) >= 4
       /\ Len(w) = 4 + L
       /\ SubSeq(w, 5, Len(w)) = Encode(val).b

(* the request tuple was framed: 26 bytes behind the prefix 0 0 0 26 *)
C8_Witness ==
  /\ pc = "marshalled"
  /\ val = RequestTerm
  /\ SubSeq(wire.b, 1, 4) = <<0, 0, 0, 26>>
  /\ Len(wire.b) = 30

(* the value v and every value nested in it *)
RECURSIVE Parts(_)
Parts(v) ==
  {v} \cup
  (IF Is(v, "tuple") THEN UNION { Parts(v.tuple[i]) : i \in 1..Len(v.tuple) }
   ELSE IF Is(v, "list") THEN UNION { Parts(v.list[i]) : i \in 1..Len(v.list) }
   ELSE {})

(* built from integers, atoms, strings, binaries, tuples and lists only *)
Representable(v) ==
  \A x \in Parts(v) :
    Is(x, "int") \/ Is(x, "atom") \/ Is(x, "str") \/ Is(x, "bin")
      \/ Is(x, "tuple") \/ Is(x, "list")

(* C1: Decode(Encode(x)) returns no error and a Term equal to x for every  *)
(* x built from integers (small, 32-bit and bignum), atoms, strings,       *)
(* binaries, tuples and lists                                              *)
C1_RoundTrip ==
  (DecodedWhole /\ Representable(val)) => (res.st = "ok" /\ res.t = val)

(* C3: Decode of a proper prefix of a well-formed encoding, the empty      *)
(* input included, returns an error: no panic and no successful Term       *)
C3_TruncatedInputFails ==
  (pc = "decoded" /\ out.e = "nil" /\ Len(data) < Len(out.b)) => res.st = "err"

(* the term bytes of a frame: what follows the length prefix, at most as   *)
(* many bytes as the prefix says                                           *)
FrameBody(f) ==
  LET L == 16777216 * f[1] + 65536 * f[2] + 256 * f[3] + f[4]
  IN SubSeq(f, 5, Min(4 + L, Len(f)))

(* C4: when decoding the framed term fails with an error, UnmarshalRequest *)
(* returns a non-nil error to its caller and does not panic                *)
C4_DecodeFailurePropagates ==
  (pc = "unmarshalled" /\ Len(frame) >= 4 /\ Decode(FrameBody(frame)).st = "err") =>
    (ures.st = "ok" /\ ures.e # "nil")

(* C5: a Bitstring whose Bits is not a multiple of 8 and whose Bytes has   *)
(* ceil(Bits/8) bytes decodes from its encoding with the same Bytes and    *)
(* the same Bits                                                           *)
C5_BitstringRoundTrip ==
  (/\ DecodedWhole
   /\ Is(val, "bits")
   /\ val.bits % 8 # 0
   /\ Len(val.bytes) = (val.bits + 7) \div 8) =>
    /\ res.st = "ok"
    /\ Is(res.t, "bits")
    /\ res.t.bytes = val.bytes
    /\ res.t.bits = val.bits

IsBignum(x) == Is(x, "int") /\ ~InInt32(x.int)

(* the complex-term result of a decoded second element *)
Collapsed(t) ==
  IF t = NilAtom THEN NilTerm
  ELSE IF t = TrueAtom THEN [bool |-> TRUE]
  ELSE IF t = FalseAtom THEN [bool |-> FALSE]
  ELSE t

(* the decoding of the encoding of one element *)
DecodedElement(x) == readTag(writeTag(x).b, 1).t

(* C9: a small tuple decodes to the collapsed complex term exactly when    *)
(* its first element is the atom bert; every other small tuple of arity n, *)
(* one with bert at a later position included, decodes to the n decoded    *)
(* elements in order.  Stated on tuples of scalars that have a decoder,    *)
(* the nil value apart, whose decoding is the subject of C10.              *)
C9_ComplexOnlyWhenBertFirst ==
  (/\ DecodedWhole
   /\ Is(val, "tuple")
   /\ out.e = "nil"
   /\ \A i \in 1..Len(val.tuple) :
        val.tuple[i] \in Scalars \ {NilTerm, RequestTerm} /\ ~IsBignum(val.tuple[i])) =>
    LET t == val.tuple
    IN IF Len(t) >= 2 /\ t[1] = BertAtom
         THEN res.st = "ok" /\ res.t = Collapsed(DecodedElement(t[2]))
       ELSE IF Len(t) >= 1 /\ t[1] = BertAtom
         THEN TRUE
       ELSE /\ res.st = "ok"
            /\ Is(res.t, "tuple")
            /\ Len(res.t.tuple) = Len(t)
            /\ \A i \in 1..Len(t) : res.t.tuple[i] = DecodedElement(t[i])

(* C10: decoding a value leaves the read position right behind its         *)
(* encoding; the nil tag takes its own byte only, so an encoding with a    *)
(* nil element before another element or before the list terminator        *)
(* decodes without error.  Stated on values without the atom bert (C9)     *)
(* and without integers beyond 32 bits, which have no decoder.             *)
C10_ExactConsumption ==
  (/\ DecodedWhole
   /\ out.e = "nil"
   /\ \A x \in Parts(val) : x # BertAtom /\ ~IsBignum(x)) =>
    (res.st = "ok" /\ res.p = Len(data) + 1)

====
